---- MODULE Spec2Model ----
(***************************************************************************)
(* golinks: the index dispatcher, the history log and the listings of the  *)
(* server, over the key-value store they share.                            *)
(*                                                                         *)
(* A string is a sequence of characters (one-character strings); a store   *)
(* key is such a sequence, so prefixes and the byte order of keys are      *)
(* computed, not assumed.                                                  *)
(***************************************************************************)
EXTENDS Integers, Sequences, FiniteSets, TLC

\* ------------------------------------------------------------------ bounds

\* Concurrent request handlers (net/http runs one goroutine per request).
NumHandlers == 2

\* Index requests that reach AddHistoryEntry in one run (a request that logs
\* nothing leaves no trace, and is not counted).
MaxRequests == 2

\* The same, in the runs of the history log alone.
MaxAppends == 3

\* Reads of the store that fail during one listing.
MaxGetFailures == 1

\* ----------------------------------------------------------------- strings

\* The byte value of each character the model uses (ASCII).
ByteTable ==
    (" " :> 32) @@ ("%" :> 37) @@ ("-" :> 45) @@ ("/" :> 47)
    @@ ("0" :> 48) @@ ("1" :> 49) @@ ("2" :> 50) @@ ("3" :> 51) @@ ("4" :> 52)
    @@ ("5" :> 53) @@ ("6" :> 54) @@ ("7" :> 55) @@ ("8" :> 56) @@ ("9" :> 57)
    @@ ("_" :> 95) @@ ("a" :> 97) @@ ("b" :> 98) @@ ("h" :> 104) @@ ("i" :> 105)
    @@ ("k" :> 107) @@ ("m" :> 109) @@ ("o" :> 111) @@ ("r" :> 114) @@ ("s" :> 115)
    @@ ("t" :> 116) @@ ("u" :> 117) @@ ("x" :> 120) @@ ("y" :> 121)
    @@ ("xFF" :> 255)       \* a byte that is no valid UTF-8
    @@ ("uFFFD" :> 239)     \* U+FFFD, by its first byte

ByteOf(c) == ByteTable[c]

\* bytes.Compare(a, b) < 0 from position i on, the bytes before it being equal.
RECURSIVE BytesLessFrom(_, _, _)
BytesLessFrom(a, b, i) ==
    IF i > Len(b) THEN FALSE
    ELSE IF i > Len(a) THEN TRUE
    ELSE IF a[i] # b[i] THEN ByteOf(a[i]) < ByteOf(b[i])
    ELSE BytesLessFrom(a, b, i + 1)

\* bytes.Compare(a, b) < 0: the order in which the store scans keys.
BytesLess(a, b) == BytesLessFrom(a, b, 1)

\* strings.HasPrefix / bytes.HasPrefix
HasPrefix(s, p) == Len(s) >= Len(p) /\ SubSeq(s, 1, Len(p)) = p

\* strings.TrimPrefix
TrimPrefix(s, p) == IF HasPrefix(s, p) THEN SubSeq(s, Len(p) + 1, Len(s)) ELSE s

\* strings.Split(s, sep) for a one-character sep: n separators give n + 1 pieces
\* (empty pieces kept).
RECURSIVE Split(_, _)
Split(s, sep) ==
    IF \A i \in 1..Len(s) : s[i] # sep THEN <<s>>
    ELSE LET i == CHOOSE j \in 1..Len(s) : s[j] = sep /\ \A k \in 1..(j - 1) : s[k] # sep
         IN  <<SubSeq(s, 1, i - 1)>> \o Split(SubSeq(s, i + 1, Len(s)), sep)

\* strings.Join(elems, sep)
RECURSIVE Join(_, _)
Join(elems, sep) ==
    IF elems = <<>> THEN <<>>
    ELSE IF Len(elems) = 1 THEN elems[1]
    ELSE elems[1] \o <<sep>> \o Join(Tail(elems), sep)

DigitChar(d) ==
    CASE d = 0 -> "0" [] d = 1 -> "1" [] d = 2 -> "2" [] d = 3 -> "3" [] d = 4 -> "4"
      [] d = 5 -> "5" [] d = 6 -> "6" [] d = 7 -> "7" [] d = 8 -> "8" [] d = 9 -> "9"

IsDigit(c) == c \in {"0", "1", "2", "3", "4", "5", "6", "7", "8", "9"}

DigitVal(c) == CHOOSE d \in 0..9 : DigitChar(d) = c

\* The %d verb of fmt, and encoding/json's integer: the decimal form, a leading
\* "-" for a negative number.
RECURSIVE FormatNat(_)
FormatNat(n) ==
    IF n < 10 THEN <<DigitChar(n)>> ELSE FormatNat(n \div 10) \o <<DigitChar(n % 10)>>

FormatInt(n) == IF n < 0 THEN <<"-">> \o FormatNat(0 - n) ELSE FormatNat(n)

RECURSIVE ParseNat(_)
ParseNat(s) ==
    IF Len(s) = 1 THEN DigitVal(s[1])
    ELSE 10 * ParseNat(SubSeq(s, 1, Len(s) - 1)) + DigitVal(s[Len(s)])

IsNatText(s) == s # <<>> /\ \A i \in 1..Len(s) : IsDigit(s[i])

\* encoding/json reads an int64 from an optional "-" and digits.
IsIntText(s) == IsNatText(s) \/ (s # <<>> /\ Head(s) = "-" /\ IsNatText(Tail(s)))

ParseInt(s) == IF Head(s) = "-" THEN 0 - ParseNat(Tail(s)) ELSE ParseNat(s)

\* fmt.Sprintf(format, arg) with one string operand: the first %s takes the
\* operand, a later %s has none left, and an operand no verb used is reported
\* at the end.
RECURSIVE SprintfFrom(_, _, _)
SprintfFrom(format, arg, used) ==
    IF format = <<>> THEN
        IF used THEN <<>> ELSE <<"%!(EXTRA string=">> \o arg \o <<")">>
    ELSE IF Head(format) # "%" THEN
        <<Head(format)>> \o SprintfFrom(Tail(format), arg, used)
    ELSE IF Len(format) = 1 THEN <<"%!(NOVERB)">> \o SprintfFrom(<<>>, arg, used)
    ELSE IF format[2] = "%" THEN <<"%">> \o SprintfFrom(SubSeq(format, 3, Len(format)), arg, used)
    ELSE IF format[2] = "s" THEN
        (IF used THEN <<"%!s(MISSING)">> ELSE arg)
            \o SprintfFrom(SubSeq(format, 3, Len(format)), arg, TRUE)
    ELSE (IF used THEN <<"%!", format[2], "(MISSING)">>
                  ELSE <<"%!", format[2], "(string=">> \o arg \o <<")">>)
            \o SprintfFrom(SubSeq(format, 3, Len(format)), arg, TRUE)

Sprintf(format, arg) == SprintfFrom(format, arg, FALSE)

\* Reverse with the loop running upwards: the scan's order is kept.
ReverseKept(s) == s

\* Sequence reversal, as the loop of HistoryHandler builds it.
Reverse(s) == [i \in 1..Len(s) |-> s[Len(s) + 1 - i]]

\* ------------------------------------------------------------------- store

\* The store is a function from keys to values (both byte strings); Put
\* overwrites, and Scan visits the keys with a prefix in ascending byte order.
StorePut(store, key, val) == (key :> val) @@ store

RECURSIVE SortKeys(_)
SortKeys(keys) ==
    IF keys = {} THEN <<>>
    ELSE LET k == CHOOSE x \in keys : \A y \in keys \ {x} : BytesLess(x, y)
         IN  <<k>> \o SortKeys(keys \ {k})

Scan(store, prefix) == SortKeys({k \in DOMAIN store : HasPrefix(k, prefix)})

HistoryPrefix == <<"h", "i", "s", "t", "o", "r", "y", "_">>

BookmarkPrefix == <<"b", "o", "o", "k", "m", "a", "r", "k", "_">>

\* ----------------------------------------------------------------- history

\* BuildHistoryKey formatting the timestamp without its sign.
BuildHistoryKeyUnsigned(timestamp) ==
    HistoryPrefix \o FormatNat(IF timestamp < 0 THEN 0 - timestamp ELSE timestamp)

\* BuildHistoryKey(timestamp): fmt.Sprintf("history_%d", timestamp)
BuildHistoryKey(timestamp) == HistoryPrefix \o FormatInt(timestamp)

\* encoding/json writes a string with every invalid UTF-8 byte replaced by
\* U+FFFD.
JsonString(s) == [i \in 1..Len(s) |-> IF s[i] = "xFF" THEN "uFFFD" ELSE s[i]]

JsonOpen == "{\"timestamp\":"
JsonCommand == ",\"command\":\""
JsonValue == "\",\"value\":\""
JsonClose == "\"}"

\* json.Marshal(HistoryEntry{...})
Marshal(entry) ==
    <<JsonOpen>> \o FormatInt(entry.Timestamp)
        \o <<JsonCommand>> \o JsonString(entry.Command)
        \o <<JsonValue>> \o JsonString(entry.Value) \o <<JsonClose>>

IndexOf(s, c) == CHOOSE i \in 1..Len(s) : s[i] = c /\ \A j \in 1..(i - 1) : s[j] # c

Occurs(s, c) == Cardinality({i \in 1..Len(s) : s[i] = c})

\* json.Unmarshal(val, &entry) succeeds
Decodable(val) ==
    /\ Len(val) >= 4
    /\ val[1] = JsonOpen
    /\ val[Len(val)] = JsonClose
    /\ Occurs(val, JsonOpen) = 1 /\ Occurs(val, JsonClose) = 1
    /\ Occurs(val, JsonCommand) = 1 /\ Occurs(val, JsonValue) = 1
    /\ IndexOf(val, JsonCommand) < IndexOf(val, JsonValue)
    /\ IsIntText(SubSeq(val, 2, IndexOf(val, JsonCommand) - 1))

\* the entry json.Unmarshal fills in
Unmarshal(val) ==
    [Timestamp |-> ParseInt(SubSeq(val, 2, IndexOf(val, JsonCommand) - 1)),
     Command   |-> SubSeq(val, IndexOf(val, JsonCommand) + 1, IndexOf(val, JsonValue) - 1),
     Value     |-> SubSeq(val, IndexOf(val, JsonValue) + 1, Len(val) - 1)]

\* HistoryVisit returning the decoding error to the scan instead of nil.
HistoryVisitStrict(acc, store, key, failed) ==
    IF key \in failed THEN acc
    ELSE IF ~Decodable(store[key]) THEN [acc EXCEPT !.err = TRUE]
    ELSE [acc EXCEPT !.entries = Append(@, Unmarshal(store[key]))]

\* The callback HistoryHandler hands to db.Scan, on one key: a record that
\* cannot be read or decoded is logged and skipped, and the callback never
\* returns an error.
HistoryVisit(acc, store, key, failed) ==
    IF key \in failed THEN acc
    ELSE IF ~Decodable(store[key]) THEN acc
    ELSE [acc EXCEPT !.entries = Append(@, Unmarshal(store[key]))]

\* db.Scan(prefix, visit): the callback on each key in order, stopping at the
\* first error it returns.
RECURSIVE HistoryScan(_, _, _, _)
HistoryScan(acc, store, keys, failed) ==
    IF keys = <<>> \/ acc.err THEN acc
    ELSE HistoryScan(HistoryVisit(acc, store, Head(keys), failed), store, Tail(keys), failed)

StatusOK == 200
StatusFound == 302
StatusBadRequest == 400
StatusInternalServerError == 500

\* What HistoryHandler answers: the entries newest first, or a bare 500 when
\* the scan returned an error.
HistoryListing(store, failed) ==
    LET got == HistoryScan([entries |-> <<>>, err |-> FALSE], store,
                           Scan(store, HistoryPrefix), failed)
    IN  IF got.err THEN [status |-> StatusInternalServerError, entries |-> <<>>]
        ELSE [status |-> StatusOK, entries |-> Reverse(got.entries)]

\* --------------------------------------------------------------- bookmarks

BuildBookmarkKey(name) == BookmarkPrefix \o name

\* The callback ListHandler hands to db.Scan: a failed read is returned, which
\* stops the scan.
BookmarkVisit(acc, store, key, failed) ==
    IF key \in failed THEN [acc EXCEPT !.err = TRUE]
    ELSE [acc EXCEPT !.bk = Append(@, [Name |-> TrimPrefix(key, BookmarkPrefix),
                                       URL  |-> store[key]])]

RECURSIVE BookmarkScan(_, _, _, _)
BookmarkScan(acc, store, keys, failed) ==
    IF keys = <<>> \/ acc.err THEN acc
    ELSE BookmarkScan(BookmarkVisit(acc, store, Head(keys), failed), store, Tail(keys), failed)

\* BookmarkListing with an empty prefix handed to db.Scan.
BookmarkListingAnyPrefix(store, failed) ==
    LET got == BookmarkScan([bk |-> <<>>, err |-> FALSE], store, Scan(store, <<>>), failed)
    IN  [status |-> StatusOK, bookmarks |-> got.bk]

\* What ListHandler renders: the scan's error is logged only.
BookmarkListing(store, failed) ==
    LET got == BookmarkScan([bk |-> <<>>, err |-> FALSE], store,
                            Scan(store, BookmarkPrefix), failed)
    IN  [status |-> StatusOK, bookmarks |-> got.bk]

\* LookupBookmark(name): the record under "bookmark_" + name, if any.
HasBookmark(store, name) == BuildBookmarkKey(name) \in DOMAIN store

LookupBookmark(store, name) == [Name |-> name, URL |-> store[BuildBookmarkKey(name)]]

\* Bookmark.Exec: the query substituted into the template's placeholder; a
\* template without a placeholder ignores the query.
HasPlaceholder(url) == \E i \in 1..(Len(url) - 1) : url[i] = "%" /\ url[i + 1] = "s"

BookmarkTarget(bookmark, q) ==
    IF HasPlaceholder(bookmark.URL) THEN Sprintf(bookmark.URL, q) ELSE bookmark.URL


\* ------------------------------------------------------------ http response

\* An http.ResponseWriter: the status of the first WriteHeader (0: none yet),
\* the Location header sent with it, and the body written.
NewResponse == [status |-> 0, location |-> <<>>, body |-> <<>>]

\* w.WriteHeader(code): only the first call sets the status.
WriteHeader(w, code) == IF w.status = 0 THEN [w EXCEPT !.status = code] ELSE w

\* w.Write(text): an implicit WriteHeader(200) first.
Write(w, text, arg) ==
    [WriteHeader(w, StatusOK) EXCEPT !.body = Append(@, [text |-> text, arg |-> arg])]

\* HttpError without its WriteHeader(code): the message goes out under 200.
HttpErrorNoStatus(w, text, arg, code) == Write(w, text, arg)

\* http.Error(w, message, code)
HttpError(w, text, arg, code) == Write(WriteHeader(w, code), text, arg)

\* http.Redirect(w, r, url, code): the Location header goes out with the
\* status, when none was sent before.
HttpRedirect(w, url, code) ==
    IF w.status = 0 THEN [w EXCEPT !.status = code, !.location = url] ELSE w

\* s.render(name, w, ctx)
Render(w, name) == Write(w, "page", name)

\* net/http at the handler's return: a response with no status gets 200.
Finish(w) == WriteHeader(w, StatusOK)

\* ---------------------------------------------------------------- commands

\* The command table: a bookmark-management command and a help command.
commands == {<<"a">>, <<"h">>}

\* LookupCommand(name) # nil: an exact match in the table.
LookupCommand(name) == name \in commands

\* command.Exec(w, r, args) as [err, w, store]: "a name url" stores the
\* bookmark, and fails without writing on any other argument list; "h" writes
\* the help text.
CommandExec(name, w, args, store) ==
    IF name = <<"a">> THEN
        IF Len(args) = 2 /\ args[1] # <<>> /\ args[2] # <<>>
        THEN [err |-> FALSE, w |-> Write(w, "added", args[1]),
              store |-> StorePut(store, BuildBookmarkKey(args[1]), args[2])]
        ELSE [err |-> TRUE, w |-> w, store |-> store]
    ELSE [err |-> FALSE, w |-> Write(w, "help", <<>>), store |-> store]

\* -------------------------------------------------------------- dispatcher

\* The router registers IndexHandler on "/" alone, so the request has no
\* "command" and no "args" path parameter: ByName gives "".
PathParam(name) == <<>>

\* The token and the arguments IndexHandler reads from the request.
Route(q) ==
    IF q # <<>>
    THEN LET tokens == Split(q, " ") IN [cmd |-> tokens[1], args |-> Tail(tokens)]
    ELSE [cmd |-> PathParam("command"), args |-> Split(PathParam("args"), "/")]

\* Resolve with the bookmark lookup ahead of the command lookup.
ResolveBookmarkFirst(cmd, store, url) ==
    IF cmd = <<>> THEN "index"
    ELSE IF HasBookmark(store, cmd) THEN "bookmark"
    ELSE IF LookupCommand(cmd) THEN "command"
    ELSE IF url # <<>> THEN "fallback"
    ELSE "invalid"

\* Resolve with the test of the default URL inverted.
ResolveFallbackInverted(cmd, store, url) ==
    IF cmd = <<>> THEN "index"
    ELSE IF LookupCommand(cmd) THEN "command"
    ELSE IF HasBookmark(store, cmd) THEN "bookmark"
    ELSE IF url = <<>> THEN "fallback"
    ELSE "invalid"

\* The branch IndexHandler takes for a token.
Resolve(cmd, store, url) ==
    IF cmd = <<>> THEN "index"
    ELSE IF LookupCommand(cmd) THEN "command"
    ELSE IF HasBookmark(store, cmd) THEN "bookmark"
    ELSE IF url # <<>> THEN "fallback"
    ELSE "invalid"

\* LogsHistory with the index page logged like a command.
LogsHistoryAlways(kind, execErr) == TRUE

\* Whether IndexHandler goes on to AddHistoryEntry after the branch.
LogsHistory(kind, execErr) == kind \in {"command", "bookmark"}

\* IndexHandler up to its call of AddHistoryEntry: the response so far, the
\* store as the command left it, and the entry to log (if any).
Dispatch(q, store, url) ==
    LET rt == Route(q)
        kind == Resolve(rt.cmd, store, url)
        base == [cmd |-> rt.cmd, kind |-> kind, execErr |-> FALSE, store |-> store,
                 w |-> NewResponse, log |-> LogsHistory(kind, FALSE),
                 name |-> <<>>, value |-> <<>>]
    IN  CASE kind = "index" -> [base EXCEPT !.w = Render(NewResponse, "index")]
          [] kind = "command" ->
                LET r == CommandExec(rt.cmd, NewResponse, rt.args, store)
                IN  [base EXCEPT
                        !.execErr = r.err,
                        !.store = r.store,
                        !.w = IF r.err
                              THEN HttpError(r.w, "Error processing command", rt.cmd,
                                             StatusInternalServerError)
                              ELSE r.w,
                        !.log = LogsHistory(kind, r.err),
                        !.name = rt.cmd]
          [] kind = "bookmark" ->
                LET joined == Join(rt.args, " ")
                    bookmark == LookupBookmark(store, rt.cmd)
                IN  [base EXCEPT
                        !.w = HttpRedirect(NewResponse, BookmarkTarget(bookmark, joined),
                                           StatusFound),
                        !.name = bookmark.Name,
                        !.value = joined]
          [] kind = "fallback" ->
                [base EXCEPT !.w = HttpRedirect(NewResponse,
                                                IF q # <<>> THEN Sprintf(url, q) ELSE url,
                                                StatusFound)]
          [] OTHER ->
                [base EXCEPT !.w = HttpError(NewResponse, "Invalid Command", rt.cmd,
                                             StatusBadRequest)]


\* AddHistoryEntry(command, value) once the clock has been read: the entry is
\* written under the key built from its timestamp.
AddHistoryEntry(store, command, value, ts) ==
    StorePut(store, BuildHistoryKey(ts),
             Marshal([Timestamp |-> ts, Command |-> command, Value |-> value]))

\* ------------------------------------------------------------------- state

VARIABLES
    db,         \* the store: key -> value
    config,     \* s.config.URL, the default URL template ("" when unset)
    pc,         \* per handler: "idle", or "log" (at its call of AddHistoryEntry)
    cur,        \* per handler: the request in flight and what Dispatch decided
    resp,       \* per handler: the response of the request in flight
    out,        \* the index request that returned in the last step, and its response
    hlist,      \* the history listing answered since the last step of an index request
    blist,      \* the bookmark listing rendered since the last step of an index request
    db0,        \* history: the store as it was opened
    appended,   \* history: the timestamps AddHistoryEntry has written, in order
    succeeded,  \* history: requests whose command or bookmark ran without error
    logging,    \* history: requests that reached AddHistoryEntry
    proc        \* the process: main's and the signal goroutine's position, the http
                \* server, Run's return variable err, and the calls of db.Close

vars ==
    <<db, config, pc, cur, resp, out, hlist, blist, db0, appended, succeeded, logging, proc>>

Handlers == 1..NumHandlers

\* time.Now().UnixNano(): the wall clock, which may repeat a value or step back.
ClockValues == {9, 10}

\* The query texts a request may carry (?q= or the form field).
QueryTexts ==
    { <<>>,
      <<" ", "b">>,
      <<"a">>,
      <<"h">>,
      <<"a", " ", "h", " ", "u", "%", "s">>,
      <<"b", " ", "x", " ", "y">>,
      <<"x", " ", "y">> }

\* EnsureDefaultBookmarks(): the bookmarks a new store starts with.
EnsureDefaultBookmarks(store) == StorePut(store, BuildBookmarkKey(<<"b">>), <<"u", "%", "s">>)

\* Startup testing for stored bookmarks instead of stored records.
StartupNoBookmarks(store) ==
    IF {k \in DOMAIN store : HasPrefix(k, BookmarkPrefix)} = {}
    THEN EnsureDefaultBookmarks(store) ELSE store

\* main, from bitcask.Open to NewServer: an empty store gets the defaults.
Startup(store) == IF Cardinality(DOMAIN store) = 0 THEN EnsureDefaultBookmarks(store) ELSE store

EmptyStore == [k \in {} |-> <<>>]

\* The stores the server may find on disk: a new one, one an earlier run left
\* (a bookmark named like a command, a history entry), and one with damaged
\* history records.
UsedStore ==
    (BuildBookmarkKey(<<"h">>) :> <<"u">>)
        @@ (BuildHistoryKey(9) :> Marshal([Timestamp |-> 9, Command |-> <<"h">>, Value |-> <<>>]))

DamagedStore ==
    (BuildBookmarkKey(<<"b">>) :> <<"u", "%", "s">>)
        @@ (BuildHistoryKey(10) :> <<"x">>)
        @@ (BuildHistoryKey(8) :> <<JsonOpen, "x", JsonCommand, "b", JsonValue, JsonClose>>)

\* The runs: the store found on disk, and the default URL template (-url).
Startups ==
    { [store |-> EmptyStore, URL |-> <<>>],
      [store |-> EmptyStore, URL |-> <<"u", "%", "s">>],
      [store |-> UsedStore, URL |-> <<"u", "%", "s">>],
      [store |-> DamagedStore, URL |-> <<>>] }

NoRequest ==
    [q |-> <<>>, cmd |-> <<>>, kind |-> "none", wasBookmark |-> FALSE, execErr |-> FALSE,
     name |-> <<>>, value |-> <<>>, ts |-> 0]

NoOutcome == [request |-> NoRequest, w |-> NewResponse]

NoHistoryListing == [status |-> 0, entries |-> <<>>, failed |-> {}]

NoBookmarkListing == [status |-> 0, bookmarks |-> <<>>, failed |-> {}]

\* A listing's answer is gone once an index request takes its next step.
ListingsSent == hlist' = NoHistoryListing /\ blist' = NoBookmarkListing

\* The process in svr.Run, serving: main is in ListenAndServe, the signal
\* goroutine waits for a signal, err is nil and the store is open.
Serving ==
    [main |-> "run", sig |-> "wait", server |-> "serving", err |-> "nil", ret |-> "none",
     closes |-> 0, inflight |-> 0, fatal |-> FALSE]

\* The process has not exited (os.Exit ends every goroutine).
Alive == proc.main # "exit"

\* The http server takes requests: from ListenAndServe until Shutdown has
\* returned (a connection accepted before the listener closed may still send
\* its request).
Accepting == Alive /\ proc.server \in {"serving", "closing"}

\* The state when the server starts to serve, for a set of runs.
InitOf(startups) ==
    /\ \E s \in startups :
            /\ db0 = s.store
            /\ db = Startup(s.store)
            /\ config = [URL |-> s.URL]
    /\ pc = [h \in Handlers |-> "idle"]
    /\ cur = [h \in Handlers |-> NoRequest]
    /\ resp = [h \in Handlers |-> NewResponse]
    /\ out = NoOutcome
    /\ hlist = NoHistoryListing
    /\ blist = NoBookmarkListing
    /\ appended = <<>>
    /\ succeeded = 0
    /\ logging = 0
    /\ proc = Serving

Init == InitOf(Startups)

\* ----------------------------------------------------------------- actions

\* IndexHandler, from the request to its call of AddHistoryEntry (or to its
\* return, on the branches that log nothing). net/http starts a goroutine per
\* request; it is numbered by the lowest number free.
IndexHandler(h, q) ==
    /\ Accepting
    /\ pc[h] = "idle"
    /\ \A g \in 1..(h - 1) : pc[g] # "idle"
    /\ \E d \in {Dispatch(q, db, config.URL)} :
       LET request == [q |-> q, cmd |-> d.cmd, kind |-> d.kind,
                       wasBookmark |-> HasBookmark(db, d.cmd), execErr |-> d.execErr,
                       name |-> d.name, value |-> d.value, ts |-> 0]
       IN  /\ db' = d.store
           /\ IF d.log
              THEN /\ cur' = [cur EXCEPT ![h] = request]
                   /\ resp' = [resp EXCEPT ![h] = d.w]
                   /\ pc' = [pc EXCEPT ![h] = "log"]
                   /\ out' = NoOutcome
                   /\ logging' = logging + 1
              ELSE /\ out' = [request |-> request, w |-> Finish(d.w)]
                   /\ UNCHANGED <<cur, resp, pc, logging>>
           /\ succeeded' = IF d.kind \in {"command", "bookmark"} /\ ~d.execErr
                           THEN succeeded + 1 ELSE succeeded
    /\ ListingsSent
    /\ UNCHANGED <<config, db0, appended, proc>>

\* The handler's goroutine ends: its response is complete.
Returns(h, request, w) ==
    /\ out' = [request |-> request, w |-> Finish(w)]
    /\ pc' = [pc EXCEPT ![h] = "idle"]
    /\ cur' = [cur EXCEPT ![h] = NoRequest]
    /\ resp' = [resp EXCEPT ![h] = NewResponse]

\* AddHistoryEntry reads the clock and db.Put succeeds; IndexHandler returns.
\* (The clock read touches nothing shared, so it is taken with the Put.)
LogEntry(h, ts) ==
    /\ Alive /\ proc.closes = 0
    /\ pc[h] = "log"
    /\ db' = AddHistoryEntry(db, cur[h].name, cur[h].value, ts)
    /\ appended' = Append(appended, ts)
    /\ Returns(h, [cur[h] EXCEPT !.ts = ts], resp[h])
    /\ ListingsSent
    /\ UNCHANGED <<config, db0, succeeded, logging, proc>>

\* AddHistoryEntry: db.Put(key, b) fails; IndexHandler answers WriteHeader(500)
\* and returns.
LogFails(h) ==
    /\ Alive
    /\ pc[h] = "log"
    /\ Returns(h, cur[h], WriteHeader(resp[h], StatusInternalServerError))
    /\ ListingsSent
    /\ UNCHANGED <<db, config, db0, appended, succeeded, logging, proc>>

FailingReads(keys) == {f \in SUBSET keys : Cardinality(f) <= MaxGetFailures}

\* HistoryHandler: GET /history
HistoryHandler ==
    /\ Accepting
    /\ \E failed \in FailingReads({k \in DOMAIN db : HasPrefix(k, HistoryPrefix)}) :
        \E answer \in {HistoryListing(db, failed)} :
            /\ hlist' = [status |-> answer.status, entries |-> answer.entries,
                         failed |-> failed]
            /\ out' = NoOutcome
            /\ UNCHANGED <<blist, db, config, pc, cur, resp, db0, appended, succeeded,
                           logging, proc>>

\* ListHandler: GET /list
ListHandler ==
    /\ Accepting
    /\ \E failed \in FailingReads({k \in DOMAIN db : HasPrefix(k, BookmarkPrefix)}) :
        \E answer \in {BookmarkListing(db, failed)} :
            /\ blist' = [status |-> answer.status, bookmarks |-> answer.bookmarks,
                         failed |-> failed]
            /\ out' = NoOutcome
            /\ UNCHANGED <<hlist, db, config, pc, cur, resp, db0, appended, succeeded,
                           logging, proc>>

Next ==
    \/ \E h \in Handlers, q \in QueryTexts :
          IndexHandler(h, q) /\ logging' <= MaxRequests
    \/ \E h \in Handlers, ts \in ClockValues : LogEntry(h, ts)
    \/ \E h \in Handlers : LogFails(h)
    \/ HistoryHandler
    \/ ListHandler

Spec == Init /\ [][Next]_vars

\* The history log alone, on a new store: bookmark requests logged at clock
\* values of either sign and of one or two digits, and history listings.
WideClockValues == <<9, 10, 11, 12, 0 - 1, 0 - 2>>

InitHistory == Init /\ db0 = EmptyStore /\ config.URL = <<>>

NextHistory ==
    \/ \E h \in Handlers :
          IndexHandler(h, <<"b", " ", "x", " ", "y">>) /\ logging' <= MaxAppends
    \/ \E h \in Handlers, i \in DOMAIN WideClockValues : LogEntry(h, WideClockValues[i])
    \/ \E h \in Handlers : LogFails(h)
    \/ HistoryHandler

SpecHistory == InitHistory /\ [][NextHistory]_vars

\* The dispatcher alone, under default URL templates with and without a
\* placeholder (and none), on a new store and on a used one.
FallbackStartups ==
    { [store |-> st, URL |-> t] :
        st \in {EmptyStore, UsedStore},
        t \in { <<>>, <<"u", "%", "s">>, <<"u">> } }

InitFallback == InitOf(FallbackStartups)

NextFallback ==
    \/ \E h \in Handlers, q \in QueryTexts :
          IndexHandler(h, q) /\ logging' <= MaxRequests
    \/ \E h \in Handlers, ts \in ClockValues : LogEntry(h, ts)
    \/ \E h \in Handlers : LogFails(h)

SpecFallback == InitFallback /\ [][NextFallback]_vars

\* --------------------------------------------------------------- lifecycle

\* The process from bitcask.Open to its exit: main (startup, Run, the deferred
\* db.Close), the signal goroutine of Run (Shutdown), and the handlers.

\* A store an earlier run left with history alone.
HistoryOnlyStore ==
    (BuildHistoryKey(9) :> Marshal([Timestamp |-> 9, Command |-> <<"h">>, Value |-> <<>>]))

LifecycleStores == {EmptyStore, UsedStore, HistoryOnlyStore}

LifecycleQueries == { <<"h">>, <<"b", " ", "x", " ", "y">> }

HandlerVars == <<pc, cur, resp, out, hlist, blist, appended, succeeded, logging>>

InitLifecycle ==
    /\ db0 \in LifecycleStores
    /\ db = db0
    /\ config = [URL |-> <<>>]
    /\ pc = [h \in Handlers |-> "idle"]
    /\ cur = [h \in Handlers |-> NoRequest]
    /\ resp = [h \in Handlers |-> NewResponse]
    /\ out = NoOutcome
    /\ hlist = NoHistoryListing
    /\ blist = NoBookmarkListing
    /\ appended = <<>>
    /\ succeeded = 0
    /\ logging = 0
    /\ proc = [Serving EXCEPT !.main = "start", !.server = "none"]

\* main after bitcask.Open: the defaults for an empty store, NewServer, and
\* svr.Run up to ListenAndServe.
MainStartup ==
    /\ proc.main = "start"
    /\ db' = Startup(db)
    /\ proc' = [proc EXCEPT !.main = "run", !.server = "serving"]
    /\ UNCHANGED <<config, db0, HandlerVars>>

\* log.Fatal during startup (EnsureDefaultBookmarks, NewServer or the listener
\* fail): os.Exit, with no deferred call run.
MainFatal ==
    /\ proc.main = "start"
    /\ proc' = [proc EXCEPT !.main = "exit", !.fatal = TRUE]
    /\ UNCHANGED <<db, config, db0, HandlerVars>>

\* The signal goroutine receives SIGINT or SIGTERM and calls s.Shutdown, whose
\* s.server.Shutdown closes the listener first.
Signal ==
    /\ Alive /\ proc.main # "start"
    /\ proc.sig = "wait"
    /\ proc' = [proc EXCEPT !.sig = "shutdown", !.server = "closing",
                            !.inflight = Cardinality({h \in Handlers : pc[h] # "idle"})]
    /\ UNCHANGED <<db, config, db0, HandlerVars>>

\* main: ListenAndServe returns http.ErrServerClosed once the listener is
\* closed, and the value is assigned to err; main goes on to <-idleConnsClosed.
ServeReturns ==
    /\ proc.main = "run"
    /\ proc.server \in {"closing", "down"}
    /\ proc' = [proc EXCEPT !.main = "wait", !.err = "ErrServerClosed"]
    /\ UNCHANGED <<db, config, db0, HandlerVars>>

\* s.server.Shutdown returning at once, requests in flight or not.
ConnectionsIdleAlways(pcs) == TRUE

\* s.server.Shutdown(context.Background()) returns nil once no connection has
\* a request in flight.
ConnectionsIdle(pcs) == \A h \in Handlers : pcs[h] = "idle"

ServerShutdownReturns ==
    /\ Alive
    /\ proc.sig = "shutdown"
    /\ ConnectionsIdle(pc)
    /\ proc' = [proc EXCEPT !.sig = "close", !.server = "down"]
    /\ UNCHANGED <<db, config, db0, HandlerVars>>

\* s.server.Shutdown returns an error (closing the listener failed): Shutdown
\* returns it without closing the store, and Run's goroutine calls log.Fatalf.
ServerShutdownFails ==
    /\ Alive
    /\ proc.sig = "shutdown"
    /\ proc' = [proc EXCEPT !.main = "exit", !.sig = "fatal", !.server = "down",
                            !.err = "error", !.fatal = TRUE]
    /\ UNCHANGED <<db, config, db0, HandlerVars>>

\* Shutdown calls db.Close(). When it succeeds Shutdown returns nil, which is
\* assigned to err, and idleConnsClosed is closed; when it fails, log.Fatalf.
CloseStore(ok) ==
    /\ Alive
    /\ proc.sig = "close"
    /\ proc' = IF ok
               THEN [proc EXCEPT !.sig = "done", !.err = "nil", !.closes = @ + 1]
               ELSE [proc EXCEPT !.main = "exit", !.sig = "fatal", !.err = "error",
                                 !.closes = @ + 1, !.fatal = TRUE]
    /\ UNCHANGED <<db, config, db0, HandlerVars>>

\* main: idleConnsClosed is closed, and Run returns err.
RunReturns ==
    /\ proc.main = "wait"
    /\ proc.sig = "done"
    /\ proc' = [proc EXCEPT !.main = "returned", !.ret = proc.err]
    /\ UNCHANGED <<db, config, db0, HandlerVars>>

\* main after svr.Run: log.Fatalf on an error (no deferred call runs), else
\* main returns and the deferred db.Close() runs.
MainExits ==
    /\ proc.main = "returned"
    /\ proc' = IF proc.ret # "nil"
               THEN [proc EXCEPT !.main = "exit", !.fatal = TRUE]
               ELSE [proc EXCEPT !.main = "exit", !.closes = @ + 1]
    /\ UNCHANGED <<db, config, db0, HandlerVars>>

NextLifecycle ==
    \/ MainStartup
    \/ MainFatal
    \/ \E h \in Handlers, q \in LifecycleQueries :
          IndexHandler(h, q) /\ logging' <= MaxRequests
    \/ \E h \in Handlers, ts \in ClockValues : LogEntry(h, ts)
    \/ \E h \in Handlers : LogFails(h)
    \/ HistoryHandler
    \/ Signal
    \/ ServeReturns
    \/ ServerShutdownReturns
    \/ ServerShutdownFails
    \/ \E ok \in BOOLEAN : CloseStore(ok)
    \/ RunReturns
    \/ MainExits

SpecLifecycle == InitLifecycle /\ [][NextLifecycle]_vars

\* ================================================================== claims

\* The index requests in the state: those at their call of AddHistoryEntry,
\* and the one that has just returned.
InFlight == {cur[h] : h \in {g \in Handlers : pc[g] = "log"}}

Requests == InFlight \cup (IF out.request.kind = "none" THEN {} ELSE {out.request})

\* The response so far of a request in the state.
ResponseOf(r) ==
    IF r = out.request THEN out.w
    ELSE resp[CHOOSE h \in Handlers : pc[h] = "log" /\ cur[h] = r]

HistoryKeys(store) == {k \in DOMAIN store : HasPrefix(k, HistoryPrefix)}

BookmarkKeys(store) == {k \in DOMAIN store : HasPrefix(k, BookmarkPrefix)}

\* C1: a token that is both a registered command and a stored bookmark is
\* dispatched to the command, never to the bookmark: the request is logged
\* under the command's name with an empty value, nothing is redirected, and
\* the bookmark branch is only taken by tokens that are no command.
CommandPrecedesBookmark ==
    \A r \in Requests :
        /\ (LookupCommand(r.cmd) /\ r.wasBookmark) =>
                /\ r.kind = "command"
                /\ r.name = r.cmd /\ r.value = <<>>
                /\ ResponseOf(r).location = <<>>
                /\ ResponseOf(r).status # StatusFound
        /\ r.kind = "bookmark" => ~LookupCommand(r.cmd)

\* C1 witness: the command "h" was run while a bookmark "h" was stored.
CommandAndBookmarkDispatched ==
    \E r \in Requests :
        /\ LookupCommand(r.cmd) /\ r.wasBookmark
        /\ r.kind = "command" /\ ~r.execErr

\* A non-empty token that is neither a command nor a stored bookmark.
Unmatched(r) == r.cmd # <<>> /\ ~LookupCommand(r.cmd) /\ ~r.wasBookmark

\* C2: a non-empty token that matches neither a command nor a bookmark is
\* answered at once, with a 302 to the default URL when one is configured and
\* with the 400 "Invalid Command" otherwise; it never reaches the history log.
FallbackOrInvalid ==
    /\ \A r \in InFlight : ~Unmatched(r)
    /\ (out.request.kind # "none" /\ Unmatched(out.request)) =>
          IF config.URL # <<>>
          THEN /\ out.request.kind = "fallback"
               /\ out.w.status = StatusFound
               /\ out.w.location = Sprintf(config.URL, out.request.q)
               /\ out.w.body = <<>>
          ELSE /\ out.request.kind = "invalid"
               /\ out.w.status = StatusBadRequest
               /\ out.w.location = <<>>
               /\ out.w.body = <<[text |-> "Invalid Command", arg |-> out.request.cmd]>>

\* C2 witness: an unmatched token was answered by the fallback redirect.
UnmatchedRedirected ==
    /\ out.request.kind = "fallback" /\ Unmatched(out.request)
    /\ out.w.status = StatusFound /\ out.w.location = <<"u", "x", " ", "y">>

\* An unmatched token was answered "Invalid Command".
UnmatchedRejected ==
    /\ out.request.kind = "invalid" /\ Unmatched(out.request)
    /\ out.w.status = StatusBadRequest


AllIdle == \A h \in Handlers : pc[h] = "idle"

\* C3: once every request has returned and no write of the store has failed,
\* the history records added since the store was opened are as many as the
\* requests whose command or bookmark ran without error.
HistoryCountsSuccesses ==
    (AllIdle /\ Len(appended) = logging) =>
        Cardinality(HistoryKeys(db)) - Cardinality(HistoryKeys(db0)) = succeeded

\* C4: the step in which a request whose command failed returns leaves the
\* history records as they were.
FailedCommandLogsNothing ==
    [][\A h \in Handlers :
          (pc[h] = "log" /\ cur[h].execErr /\ pc'[h] = "idle") =>
              /\ HistoryKeys(db') = HistoryKeys(db)
              /\ \A k \in HistoryKeys(db) : db'[k] = db[k]]_vars

\* C6: no step overwrites, alters or deletes a stored history record, and
\* every append adds a record of its own.
HistoryAppendOnly ==
    [][/\ \A k \in HistoryKeys(db) : k \in DOMAIN db' /\ db'[k] = db[k]
       /\ Len(appended') = Len(appended) + 1 =>
              Cardinality(HistoryKeys(db')) = Cardinality(HistoryKeys(db)) + 1]_vars

\* C7: every entry appended carries a timestamp greater than that of every
\* entry appended before it.
TimestampsIncrease ==
    \A i, j \in 1..Len(appended) : i < j => appended[i] < appended[j]

\* C8: a request with an empty token is answered with the index page alone,
\* in one step that leaves the store, the history and every other request as
\* they were; it never reaches AddHistoryEntry.
EmptyTokenOnlyRendersIndex ==
    [][/\ \A r \in InFlight : r.cmd # <<>>
       /\ (out'.request.kind # "none" /\ out'.request.cmd = <<>>) =>
              /\ out'.request.kind = "index"
              /\ out'.w = [status |-> StatusOK, location |-> <<>>,
                           body |-> <<[text |-> "page", arg |-> "index"]>>]
              /\ db' = db
              /\ UNCHANGED <<appended, pc, cur, resp, logging, succeeded>>]_vars

\* C8 witness: the query " b" (an empty token, then the name of a stored
\* bookmark) got the index page.
EmptyTokenServed ==
    /\ out.request.kind = "index"
    /\ out.request.q = <<" ", "b">>
    /\ HasBookmark(db, <<"b">>)
    /\ out.w.status = StatusOK


\* The names a bookmark listing shows.
ListedNames(l) == {l.bookmarks[i].Name : i \in 1..Len(l.bookmarks)}

\* C9: a bookmark listing shows only records stored under "bookmark_", each
\* once, by its key less the prefix and with its value, and all of them when
\* no read failed; a history listing is built only from records stored under
\* "history_", each used at most once.
PrefixIsolation ==
    /\ blist.status # 0 =>
          /\ \A i \in 1..Len(blist.bookmarks) :
                /\ BookmarkPrefix \o blist.bookmarks[i].Name \in DOMAIN db
                /\ blist.bookmarks[i].URL = db[BookmarkPrefix \o blist.bookmarks[i].Name]
          /\ Cardinality(ListedNames(blist)) = Len(blist.bookmarks)
          /\ blist.failed = {} =>
                {BookmarkPrefix \o n : n \in ListedNames(blist)} = BookmarkKeys(db)
    /\ hlist.status # 0 =>
          /\ \A i \in 1..Len(hlist.entries) :
                \E k \in HistoryKeys(db) :
                    Decodable(db[k]) /\ Unmarshal(db[k]) = hlist.entries[i]
          /\ Len(hlist.entries) <= Cardinality(HistoryKeys(db))

\* C9 witness: both listings were taken of a store that holds bookmarks and
\* history entries, and each shows a record.
BothNamespacesListed ==
    /\ blist.status # 0 /\ blist.bookmarks # <<>>
    /\ hlist.status # 0 /\ hlist.entries # <<>>
    /\ Cardinality(HistoryKeys(db)) >= 2
    /\ Cardinality(BookmarkKeys(db)) >= 2

\* The history records of a store that decode.
Sound(store) ==
    [k \in {x \in DOMAIN store : HasPrefix(x, HistoryPrefix) => Decodable(store[x])}
        |-> store[k]]

\* C10: a history listing never answers an error, whatever records are damaged;
\* when every read succeeds it shows exactly the records that decode, as many
\* as there are, in the order the listing of the store without the damaged
\* records has.
DamagedRecordsSkipped ==
    hlist.status # 0 =>
        /\ hlist.status = StatusOK
        /\ hlist.failed = {} =>
              /\ hlist.entries = HistoryListing(Sound(db), {}).entries
              /\ Len(hlist.entries) =
                    Cardinality({k \in HistoryKeys(db) : Decodable(db[k])})
              /\ \A k \in HistoryKeys(db) :
                    Decodable(db[k]) =>
                        \E i \in 1..Len(hlist.entries) : hlist.entries[i] = Unmarshal(db[k])

\* C10 witness: a listing of a store whose scan meets a damaged record between
\* two sound ones shows the two.
DamagedBetweenSound ==
    /\ hlist.status = StatusOK /\ hlist.failed = {}
    /\ Len(hlist.entries) = 2
    /\ \E a, b, c \in HistoryKeys(db) :
          /\ BytesLess(a, b) /\ BytesLess(b, c)
          /\ Decodable(db[a]) /\ ~Decodable(db[b]) /\ Decodable(db[c])


StrictlyIncreasing(seq) == \A i, j \in 1..Len(seq) : i < j => seq[i] < seq[j]

Timestamps(entries) == [i \in 1..Len(entries) |-> entries[i].Timestamp]

\* The timestamps appended so far, last first.
NewestFirst == [i \in 1..Len(appended) |-> appended[Len(appended) + 1 - i]]

\* C5 as claimed: on a store that held no history when opened, after appends
\* with strictly increasing timestamps of any magnitude, a listing whose reads
\* all succeed shows the entries in the reverse of the order of the appends.
ListsInReverseOfAppends ==
    (/\ hlist.status # 0 /\ hlist.failed = {}
     /\ HistoryKeys(db0) = {}
     /\ StrictlyIncreasing(appended))
        => Timestamps(hlist.entries) = NewestFirst

\* Timestamps without a sign whose decimal forms have the same length.
SameWidth(seq) ==
    \A i \in 1..Len(seq) :
        seq[i] >= 0 /\ Len(FormatInt(seq[i])) = Len(FormatInt(seq[1]))

\* C5 as amended: the same, for timestamps that are not negative and whose
\* decimal forms have the same number of digits.
ListsInReverseOfAppendsSameWidth ==
    (/\ hlist.status # 0 /\ hlist.failed = {}
     /\ HistoryKeys(db0) = {}
     /\ StrictlyIncreasing(appended)
     /\ SameWidth(appended))
        => Timestamps(hlist.entries) = NewestFirst

\* C5 witness: entries appended at 10, 11 and 12 are listed as 12, 11, 10.
ThreeListedNewestFirst ==
    /\ hlist.status # 0 /\ hlist.failed = {}
    /\ appended = <<10, 11, 12>>
    /\ Timestamps(hlist.entries) = <<12, 11, 10>>


\* A step in which handler h returns from an AddHistoryEntry whose Put failed.
AppendFailed(h) == pc[h] = "log" /\ pc'[h] = "idle" /\ appended' = appended

\* C11: when the append fails after the command or bookmark has run, the
\* response keeps what the command or bookmark sent (status, Location, body),
\* and the caller is told of the failure by a 500.
AppendFailureReported ==
    [][\A h \in Handlers :
          AppendFailed(h) =>
              /\ out'.w.location = resp[h].location
              /\ out'.w.body = resp[h].body
              /\ resp[h].status # 0 => out'.w.status = resp[h].status
              /\ out'.w.status = StatusInternalServerError]_vars

\* C13: a failed read of a listing and a failed write of an append are
\* answered with a 500.
StoreFailureSurfaced ==
    [][/\ (blist'.status # 0 /\ blist'.failed # {}) =>
              blist'.status = StatusInternalServerError
       /\ (hlist'.status # 0 /\ hlist'.failed # {}) =>
              hlist'.status = StatusInternalServerError
       /\ \A h \in Handlers :
              AppendFailed(h) => out'.w.status = StatusInternalServerError]_vars

\* C15: a request whose command's Exec returned an error is answered 500, with
\* the message "Error processing command" naming the command and no redirect;
\* the handler goes on (to AddHistoryEntry) and returns.
FailedCommandAnswers500 ==
    \A r \in Requests :
        (r.kind = "command" /\ r.execErr) =>
            /\ ResponseOf(r).status = StatusInternalServerError
            /\ ResponseOf(r).body =
                  <<[text |-> "Error processing command", arg |-> r.cmd]>>
            /\ ResponseOf(r).location = <<>>

\* C15 witness: a command failed and was answered (every handler has
\* returned), and a bookmark request was served its redirect afterwards.
FailedCommandThenServed ==
    /\ AllIdle
    /\ logging > succeeded
    /\ \E k \in HistoryKeys(db) \ HistoryKeys(db0) :
          Decodable(db[k]) /\ Unmarshal(db[k]).Command = <<"a">>
    /\ out.request.kind = "bookmark"
    /\ out.w.status = StatusFound


\* The (Command, Value) pairs a history listing of the store shows when every
\* read succeeds.
Listed(store) ==
    LET entries == HistoryListing(store, {}).entries
    IN  {<<entries[i].Command, entries[i].Value>> : i \in 1..Len(entries)}

\* C12: once a dispatched command or bookmark has been logged, a history
\* listing shows an entry with its name and its value (the arguments joined by
\* single spaces for a bookmark, "" for a command), and goes on showing one for
\* everything logged before.
HistoryRoundTrip ==
    [][\A h \in Handlers :
          (pc[h] = "log" /\ pc'[h] = "idle" /\ Len(appended') = Len(appended) + 1) =>
              /\ cur[h].kind = "bookmark" =>
                    /\ cur[h].name = cur[h].cmd
                    /\ cur[h].value = Join(Tail(Split(cur[h].q, " ")), " ")
              /\ cur[h].kind = "command" =>
                    cur[h].name = cur[h].cmd /\ cur[h].value = <<>>
              /\ <<cur[h].name, cur[h].value>> \in Listed(db')
              /\ Listed(db) \subseteq Listed(db')]_vars

\* C14: every stored history record decodes, lies under "history_" followed
\* by the decimal form of the timestamp in its own value, and its value is the
\* JSON object of exactly the fields timestamp, command and value.
HistoryRecordsWellFormed ==
    \A k \in HistoryKeys(db) :
        /\ Decodable(db[k])
        /\ k = HistoryPrefix \o FormatInt(Unmarshal(db[k]).Timestamp)
        /\ db[k] = <<JsonOpen>> \o FormatInt(Unmarshal(db[k]).Timestamp)
                      \o <<JsonCommand>> \o Unmarshal(db[k]).Command
                      \o <<JsonValue>> \o Unmarshal(db[k]).Value \o <<JsonClose>>

\* C14 witness: records appended at a negative, a one-digit and a two-digit
\* clock value are stored.
SignedRecordsStored ==
    /\ Cardinality(HistoryKeys(db)) = 3
    /\ \E i, j, k \in 1..Len(appended) :
          appended[i] < 0 /\ appended[j] \in 0..9 /\ appended[k] >= 10


\* The template with the text in the place of its placeholder.
RECURSIVE Substitute(_, _)
Substitute(template, text) ==
    IF Len(template) < 2 THEN template
    ELSE IF template[1] = "%" /\ template[2] = "s"
         THEN text \o Substitute(SubSeq(template, 3, Len(template)), text)
         ELSE <<template[1]>> \o Substitute(Tail(template), text)

\* C16: a fallback redirect goes to the default URL template with the whole
\* query text in the place of its placeholder when the request carried a query
\* text, and to the template as it is when it carried none.
FallbackSubstitutes ==
    out.request.kind = "fallback" =>
        /\ out.w.status = StatusFound
        /\ out.w.location = IF out.request.q # <<>>
                            THEN Substitute(config.URL, out.request.q)
                            ELSE config.URL


\* C17: Shutdown closes the store only once s.server.Shutdown has returned nil,
\* when no handler has a request in flight; once db.Close has been called no
\* handler takes a step (so none reads, writes or scans the closed store); and
\* Run has not returned unless the store has been closed.
StoreClosedAfterShutdown ==
    [][/\ (proc'.closes > proc.closes /\ proc.main # "returned") =>
              /\ proc.sig = "close" /\ proc.server = "down"
              /\ \A h \in Handlers : pc[h] = "idle"
       /\ proc.closes > 0 => UNCHANGED <<db, pc, cur, resp, out, hlist, blist>>
       /\ proc'.main = "returned" => proc'.closes >= 1]_vars

\* C17 witness: the signal came while a request was in flight; the request was
\* logged, the store was closed and Run has returned.
ShutdownDrained ==
    /\ proc.main = "returned"
    /\ proc.closes = 1
    /\ proc.inflight >= 1
    /\ Len(appended) >= 1

\* C18: when Run returns after a graceful shutdown (s.server.Shutdown and
\* db.Close both succeeded), it returns nil.
GracefulRunReturnsNil ==
    (proc.main = "returned" /\ proc.sig = "done") => proc.ret = "nil"

\* C19: db.Close is called at most once in a run of the process.
ClosedAtMostOnce == proc.closes <= 1

\* C20: startup writes the default bookmarks (bookmarks only) when the store
\* holds no record, and leaves a store that holds any record as it is.
DefaultsOnlyOnEmptyStore ==
    [][(proc.main = "start" /\ proc'.main = "run") =>
          /\ DOMAIN db = {} =>
                /\ db' # db
                /\ BookmarkKeys(db') = DOMAIN db'
          /\ DOMAIN db # {} => db' = db]_vars

\* C20 witness: a store holding one history record and no bookmark went through
\* startup and is as it was.
HistoryOnlyStoreLeftAlone ==
    /\ proc.main = "run"
    /\ logging = 0
    /\ db0 = HistoryOnlyStore
    /\ BookmarkKeys(db0) = {}
    /\ db = db0


====
